---- MODULE Spec2Model ----
(***************************************************************************)
(* Model of src/rand_custom.cpp: create_pcg32 and check_pcg_vectors, and   *)
(* of the host caller that validates the seed and stream vectors and then  *)
(* constructs one generator per entry.                                     *)
(*                                                                         *)
(* Each caller runs check_pcg_vectors line by line (the program counter    *)
(* values "L14" .. "L26" are the source lines of the function), so that    *)
(* several invocations can be interleaved.                                 *)
(***************************************************************************)
EXTENDS Integers, Sequences, FiniteSets, TLC

(***************************************************************************)
(* Bounds.                                                                 *)
(***************************************************************************)
\* Width in bits of size_t / uint64_t in the model (64 in the build).
WordBits == 3
\* Longest seed / stream vector whose contents are enumerated.
MaxLen == 2

(***************************************************************************)
(* Types.                                                                  *)
(***************************************************************************)
Procs == {1, 2}

Pow2(n) == 2 ^ n

\* Largest value of size_t / uint64_t.
SIZE_MAX == Pow2(WordBits) - 1
\* Largest value of the signed container size (R_xlen_t).
XLEN_MAX == Pow2(WordBits - 1) - 1

\* SEXP seed values handed over by the host: a numeric seed that fits, a
\* numeric seed that is out of range for uint64_t, and a non-numeric value.
NumericSeed(v) == [kind |-> "numeric", val |-> v]
SeedVals == {NumericSeed(5), NumericSeed(SIZE_MAX + 1), [kind |-> "character", val |-> 0]}
\* int stream indices (signed).
StreamVals == {-1, 1}
\* const char* msg
Labels == {"chains", "workers"}

SeqsUpTo(S, n) == UNION {[1..k -> S] : k \in 0..n}
Fill(n, v) == [k \in 1..n |-> v]

\* The arguments of one call of check_pcg_vectors.
MkArgs(seeds, streams, N, msg) == [seeds |-> seeds, streams |-> streams, N |-> N, msg |-> msg]

\* Short vectors with every content.
SmallInputs ==
    {MkArgs(s, t, n, l) : s \in SeqsUpTo(SeedVals, MaxLen), t \in SeqsUpTo(StreamVals, MaxLen),
                          n \in 0..(MaxLen + 1), l \in Labels}
\* Vectors of every length a signed size can have, against every size_t N.
WideInputs ==
    {MkArgs(Fill(a, NumericSeed(5)), Fill(b, 1), n, l) : a \in 0..XLEN_MAX, b \in 0..XLEN_MAX,
                                                          n \in 0..SIZE_MAX, l \in Labels}
\* Vectors of every short length, same contents.
ConcInputs ==
    {MkArgs(Fill(a, NumericSeed(5)), Fill(b, 1), n, l) : a \in 0..MaxLen, b \in 0..MaxLen,
                                                          n \in 0..(MaxLen + 1), l \in Labels}
Inputs == SmallInputs \cup WideInputs

NoArgs == MkArgs(<<>>, <<>>, 0, "")

(***************************************************************************)
(* Pure helpers.                                                           *)
(***************************************************************************)
\* Variant: the size is cast to a type narrower than size_t.
size_cast_narrow(x) == x % Pow2(WordBits - 2)

\* static_cast<size_t>(x) of a signed size x.
size_cast(x) == x % Pow2(WordBits)

\* pcg32(state, stream): the handle built by the generator's constructor,
\* whose stream parameter has the unsigned word type.
pcg32(state, stream) == [state |-> state, stream |-> stream % Pow2(WordBits)]

\* Exceptions.
NoExc == [type |-> "none", what |-> ""]
runtime_error(what) == [type |-> "std::runtime_error", what |-> what]
SeedConversionError == [type |-> "SeedConversionError", what |-> "seed cannot be converted"]

\* convert_seed<uint64_t>(seed): the unsigned value of a numeric seed in
\* range; otherwise the error it raises.
convert_seed(seed) ==
    IF seed.kind = "numeric" /\ seed.val \in 0..SIZE_MAX
    THEN [ok |-> TRUE, val |-> seed.val, exc |-> NoExc]
    ELSE [ok |-> FALSE, val |-> 0, exc |-> SeedConversionError]

\* std::stringstream err
NoStream == [live |-> FALSE, buf |-> ""]
NewStream == [live |-> TRUE, buf |-> ""]
Put(s, text) == [s EXCEPT !.buf = s.buf \o text]

\* check_pcg_vectors as one function of its arguments: the exception it
\* raises, NoExc when it returns.
check_pcg_vectors(a) ==
    IF size_cast(Len(a.seeds)) # a.N
    THEN runtime_error("number of " \o a.msg \o " and seeds should be the same")
    ELSE IF size_cast(Len(a.streams)) # a.N
    THEN runtime_error("number of " \o a.msg \o " and streams should be the same")
    ELSE NoExc

(***************************************************************************)
(* State.                                                                  *)
(***************************************************************************)
VARIABLES
    pc,     \* pc[p]: where caller p stands
    args,   \* args[p]: the arguments of p's call of check_pcg_vectors
    err,    \* err[p]: the local std::stringstream err of p's invocation
    exc,    \* exc[p]: the exception p's call raised
    gens    \* gens[p]: the generators p has constructed so far

vars == <<pc, args, err, exc, gens>>

Init ==
    /\ pc = [p \in Procs |-> "idle"]
    /\ args = [p \in Procs |-> NoArgs]
    /\ err = [p \in Procs |-> NoStream]
    /\ exc = [p \in Procs |-> NoExc]
    /\ gens = [p \in Procs |-> <<>>]

(***************************************************************************)
(* check_pcg_vectors, line by line.                                        *)
(***************************************************************************)
\* The caller enters check_pcg_vectors(seeds, streams, N, msg) with
\* arguments taken from S.
Call(p, S) ==
    /\ pc[p] = "idle"
    /\ \E a \in S : args' = [args EXCEPT ![p] = a]
    /\ pc' = [pc EXCEPT ![p] = "L14"]
    /\ UNCHANGED <<err, exc, gens>>

\* The other caller.
Other(p) == CHOOSE q \in Procs : q # p

\* Variant: the comparison is == instead of !=.
L14_inverted(p) ==
    /\ pc[p] = "L14"
    /\ pc' = [pc EXCEPT ![p] = IF size_cast(Len(args[p].seeds)) = args[p].N THEN "L15" ELSE "L20"]
    /\ UNCHANGED <<args, err, exc, gens>>

\* Variant: N is kept in a static that the other caller's frame overlays.
L14_shared(p) ==
    /\ pc[p] = "L14"
    /\ pc' = [pc EXCEPT ![p] = IF size_cast(Len(args[p].seeds)) # args[Other(p)].N THEN "L15" ELSE "L20"]
    /\ UNCHANGED <<args, err, exc, gens>>

\* Variant: the seed check is made for one label only.
L14_label(p) ==
    /\ pc[p] = "L14"
    /\ pc' = [pc EXCEPT ![p] = IF size_cast(Len(args[p].seeds)) # args[p].N /\ args[p].msg = "chains"
                                THEN "L15" ELSE "L20"]
    /\ UNCHANGED <<args, err, exc, gens>>

\* if (static_cast<size_t>(seeds.size())!=N)
L14(p) ==
    /\ pc[p] = "L14"
    /\ pc' = [pc EXCEPT ![p] = IF size_cast(Len(args[p].seeds)) # args[p].N THEN "L15" ELSE "L20"]
    /\ UNCHANGED <<args, err, exc, gens>>

\* std::stringstream err;
L15(p) ==
    /\ pc[p] = "L15"
    /\ err' = [err EXCEPT ![p] = NewStream]
    /\ pc' = [pc EXCEPT ![p] = "L16"]
    /\ UNCHANGED <<args, exc, gens>>

\* Variant: the text of the stream check is pasted into the seed check.
L16_streams(p) ==
    /\ pc[p] = "L16"
    /\ err' = [err EXCEPT ![p] = Put(Put(Put(@, "number of "), args[p].msg), " and streams should be the same")]
    /\ pc' = [pc EXCEPT ![p] = "L17"]
    /\ UNCHANGED <<args, exc, gens>>

\* err << "number of " << msg << " and seeds should be the same";
L16(p) ==
    /\ pc[p] = "L16"
    /\ err' = [err EXCEPT ![p] = Put(Put(Put(@, "number of "), args[p].msg), " and seeds should be the same")]
    /\ pc' = [pc EXCEPT ![p] = "L17"]
    /\ UNCHANGED <<args, exc, gens>>

\* throw std::runtime_error(err.str());  (err is destroyed by the unwinding)
L17(p) ==
    /\ pc[p] = "L17"
    /\ exc' = [exc EXCEPT ![p] = runtime_error(err[p].buf)]
    /\ err' = [err EXCEPT ![p] = NoStream]
    /\ pc' = [pc EXCEPT ![p] = "thrown"]
    /\ UNCHANGED <<args, gens>>

\* Variant: the stream check is missing.
L20_nocheck(p) ==
    /\ pc[p] = "L20"
    /\ pc' = [pc EXCEPT ![p] = "L26"]
    /\ UNCHANGED <<args, err, exc, gens>>

\* Variant: N is kept in a static that the other caller's frame overlays.
L20_shared(p) ==
    /\ pc[p] = "L20"
    /\ pc' = [pc EXCEPT ![p] = IF size_cast(Len(args[p].streams)) # args[Other(p)].N THEN "L21" ELSE "L26"]
    /\ UNCHANGED <<args, err, exc, gens>>

\* Variant: the test assigns the size to N instead of comparing.
L20_assign(p) ==
    /\ pc[p] = "L20"
    /\ args' = [args EXCEPT ![p].N = size_cast(Len(args[p].streams))]
    /\ pc' = [pc EXCEPT ![p] = IF args'[p].N = 0 THEN "L26" ELSE "L21"]
    /\ UNCHANGED <<err, exc, gens>>

\* if (static_cast<size_t>(streams.size())!=N)
L20(p) ==
    /\ pc[p] = "L20"
    /\ pc' = [pc EXCEPT ![p] = IF size_cast(Len(args[p].streams)) # args[p].N THEN "L21" ELSE "L26"]
    /\ UNCHANGED <<args, err, exc, gens>>

\* std::stringstream err;
L21(p) ==
    /\ pc[p] = "L21"
    /\ err' = [err EXCEPT ![p] = NewStream]
    /\ pc' = [pc EXCEPT ![p] = "L22"]
    /\ UNCHANGED <<args, exc, gens>>

\* Variant: the text of the seed check is pasted into the stream check.
L22_seeds(p) ==
    /\ pc[p] = "L22"
    /\ err' = [err EXCEPT ![p] = Put(Put(Put(@, "number of "), args[p].msg), " and seeds should be the same")]
    /\ pc' = [pc EXCEPT ![p] = "L23"]
    /\ UNCHANGED <<args, exc, gens>>

\* err << "number of " << msg << " and streams should be the same";
L22(p) ==
    /\ pc[p] = "L22"
    /\ err' = [err EXCEPT ![p] = Put(Put(Put(@, "number of "), args[p].msg), " and streams should be the same")]
    /\ pc' = [pc EXCEPT ![p] = "L23"]
    /\ UNCHANGED <<args, exc, gens>>

\* throw std::runtime_error(err.str());
L23(p) ==
    /\ pc[p] = "L23"
    /\ exc' = [exc EXCEPT ![p] = runtime_error(err[p].buf)]
    /\ err' = [err EXCEPT ![p] = NoStream]
    /\ pc' = [pc EXCEPT ![p] = "thrown"]
    /\ UNCHANGED <<args, gens>>

\* return;
L26(p) ==
    /\ pc[p] = "L26"
    /\ pc' = [pc EXCEPT ![p] = "returned"]
    /\ UNCHANGED <<args, err, exc, gens>>

(***************************************************************************)
(* create_pcg32 and the caller's construction loop.                        *)
(***************************************************************************)
\* Variant: a failed conversion is swallowed and the generator is seeded
\* with 0.
create_pcg32_default(p, seed, stream) ==
    /\ gens' = [gens EXCEPT ![p] = Append(@, pcg32(convert_seed(seed).val, stream))]
    /\ pc' = [pc EXCEPT ![p] = "returned"]
    /\ UNCHANGED <<args, err, exc>>

\* pcg32 create_pcg32(SEXP seed, int stream): the conversion fails and its
\* error leaves the function, or the generator is returned to the caller.
create_pcg32(p, seed, stream) ==
    \/ /\ ~convert_seed(seed).ok
       /\ exc' = [exc EXCEPT ![p] = convert_seed(seed).exc]
       /\ pc' = [pc EXCEPT ![p] = "aborted"]
       /\ UNCHANGED <<args, err, gens>>
    \/ /\ convert_seed(seed).ok
       /\ gens' = [gens EXCEPT ![p] = Append(@, pcg32(convert_seed(seed).val, stream))]
       /\ pc' = [pc EXCEPT ![p] = "returned"]
       /\ UNCHANGED <<args, err, exc>>

\* Entry i of a vector; a read past the end yields any value.
At(v, i, S) == IF i \in DOMAIN v THEN {v[i]} ELSE S

\* The caller's loop after validation: generator i is made from seeds[i]
\* and streams[i].
Construct(p) ==
    /\ pc[p] = "returned"
    /\ Len(gens[p]) < args[p].N
    /\ \E seed \in At(args[p].seeds, Len(gens[p]) + 1, SeedVals) :
         \E stream \in At(args[p].streams, Len(gens[p]) + 1, StreamVals) :
            create_pcg32(p, seed, stream)

\* All N generators are constructed.
Finish(p) ==
    /\ pc[p] = "returned"
    /\ Len(gens[p]) = args[p].N
    /\ pc' = [pc EXCEPT ![p] = "done"]
    /\ UNCHANGED <<args, err, exc, gens>>

\* The caller's request is over; its frame is gone.
Reset(p) ==
    /\ pc[p] \in {"thrown", "aborted", "done"}
    /\ pc' = [pc EXCEPT ![p] = "idle"]
    /\ args' = [args EXCEPT ![p] = NoArgs]
    /\ exc' = [exc EXCEPT ![p] = NoExc]
    /\ gens' = [gens EXCEPT ![p] = <<>>]
    /\ UNCHANGED err

\* The caller drops the result of a validation it ran on its own.
Drop(p) ==
    /\ pc[p] \in {"thrown", "returned"}
    /\ pc' = [pc EXCEPT ![p] = "idle"]
    /\ args' = [args EXCEPT ![p] = NoArgs]
    /\ exc' = [exc EXCEPT ![p] = NoExc]
    /\ UNCHANGED <<err, gens>>

(***************************************************************************)
(* Specifications.                                                         *)
(***************************************************************************)
Validate(p) ==
    \/ L14(p) \/ L15(p) \/ L16(p) \/ L17(p)
    \/ L20(p) \/ L21(p) \/ L22(p) \/ L23(p)
    \/ L26(p)

\* The host is single threaded: one request at a time.
Solo(p) == \A q \in Procs \ {p} : pc[q] = "idle"

\* A request of the host: it starts when no other request is running.
Request(p) ==
    /\ Solo(p)
    /\ Call(p, Inputs)

Next ==
    \E p \in Procs :
        \/ Request(p)
        \/ Validate(p)
        \/ Construct(p)
        \/ Finish(p)
        \/ Reset(p)

Spec == Init /\ [][Next]_vars

\* Several callers run check_pcg_vectors at the same time, with no lock.
NextConc ==
    \E p \in Procs :
        \/ Call(p, ConcInputs)
        \/ Validate(p)
        \/ Drop(p)

SpecConc == Init /\ [][NextConc]_vars

(***************************************************************************)
(* Properties.                                                             *)
(***************************************************************************)
\* check_pcg_vectors has returned to caller p / has thrown to caller p.
Returned(p) == pc[p] \in {"returned", "done", "aborted"}
Thrown(p) == pc[p] = "thrown"
Completed(p) == Returned(p) \/ Thrown(p)

SeedsMessage(label) == "number of " \o label \o " and seeds should be the same"
StreamsMessage(label) == "number of " \o label \o " and streams should be the same"

\* Which check a caller's exception reports.
FailureKind(p) ==
    IF exc[p] = NoExc THEN "none"
    ELSE IF exc[p] = runtime_error(SeedsMessage(args[p].msg)) THEN "seeds"
    ELSE IF exc[p] = runtime_error(StreamsMessage(args[p].msg)) THEN "streams"
    ELSE "other"

\* C1: whenever both vectors have exactly N entries (N = 0 and two empty
\* vectors included), check_pcg_vectors returns normally and raises nothing.
C1_EqualLengthsReturn ==
    \A p \in Procs :
        (Completed(p) /\ Len(args[p].seeds) = args[p].N /\ Len(args[p].streams) = args[p].N)
            => /\ Returned(p)
               /\ pc[p] = "returned" => exc[p] = NoExc

C1_Witness ==
    \E p \in Procs :
        /\ pc[p] = "returned" /\ exc[p] = NoExc
        /\ args[p].N = 0 /\ args[p].seeds = <<>> /\ args[p].streams = <<>>

\* C2: whenever the seed vector's length differs from N, the call fails with
\* "number of <label> and seeds should be the same", whatever the length of
\* the stream vector; the stream check is only reached once the seed check
\* has passed.
C2_SeedsMismatchFirst ==
    \A p \in Procs :
        /\ (Completed(p) /\ Len(args[p].seeds) # args[p].N)
              => Thrown(p) /\ exc[p] = runtime_error(SeedsMessage(args[p].msg))
        /\ pc[p] \in {"L20", "L21", "L22", "L23", "L26"} => Len(args[p].seeds) = args[p].N
        /\ (Completed(p) /\ args[p].N = 3 /\ Len(args[p].seeds) = 2 /\ args[p].msg = "chains")
              => exc[p].what = "number of chains and seeds should be the same"

C2_Witness ==
    \E p \in Procs :
        /\ Thrown(p)
        /\ Len(args[p].seeds) # args[p].N /\ Len(args[p].streams) # args[p].N
        /\ exc[p].what = SeedsMessage(args[p].msg)

\* C3: whenever the seed vector has N entries and the stream vector has not,
\* the call fails with "number of <label> and streams should be the same".
C3_StreamsMismatch ==
    \A p \in Procs :
        /\ (Completed(p) /\ Len(args[p].seeds) = args[p].N /\ Len(args[p].streams) # args[p].N)
              => Thrown(p) /\ exc[p] = runtime_error(StreamsMessage(args[p].msg))
        /\ (Completed(p) /\ args[p].N = 3 /\ Len(args[p].seeds) = 3 /\ Len(args[p].streams) = 2
                /\ args[p].msg = "workers")
              => exc[p].what = "number of workers and streams should be the same"

C3_Witness ==
    \E p \in Procs :
        /\ Thrown(p)
        /\ args[p].N = 3 /\ Len(args[p].seeds) = 3 /\ Len(args[p].streams) = 2
        /\ args[p].msg = "workers"
        /\ exc[p].what = "number of workers and streams should be the same"

\* C4: a caller is past the validation, or owns a generator, only if both
\* vectors have exactly N entries; a caller whose validation failed owns no
\* generator.
C4_ValidatedBeforeConstruction ==
    \A p \in Procs :
        /\ (Returned(p) \/ gens[p] # <<>>)
              => Len(args[p].seeds) = args[p].N /\ Len(args[p].streams) = args[p].N
        /\ Thrown(p) => gens[p] = <<>>
        /\ Len(gens[p]) <= args[p].N

C4_Witness ==
    \E p \in Procs : pc[p] = "done" /\ Len(gens[p]) = args[p].N /\ args[p].N = MaxLen

\* C5: two completed calls with the same seed length, stream length, N and
\* label have the same outcome, whatever calls were made in between.
C5_SameInputsSameResult ==
    \A p, q \in Procs :
        (/\ Completed(p) /\ Completed(q)
         /\ Len(args[p].seeds) = Len(args[q].seeds)
         /\ Len(args[p].streams) = Len(args[q].streams)
         /\ args[p].N = args[q].N
         /\ args[p].msg = args[q].msg)
            => pc[p] = pc[q] /\ exc[p] = exc[q]

C5_Witness ==
    \E p, q \in Procs :
        /\ p # q /\ Thrown(p) /\ Thrown(q)
        /\ args[p] = args[q]
        /\ exc[p] = exc[q]

\* C6: no step of check_pcg_vectors changes the caller's vectors, N or
\* label, or the generators; the stream err exists only between its
\* declaration and the throw, so nothing is kept once the call is over.
C6_NoSideEffects ==
    /\ [][\A p \in Procs :
             pc[p] \in {"L14", "L15", "L16", "L17", "L20", "L21", "L22", "L23", "L26"}
                => args'[p] = args[p] /\ gens'[p] = gens[p]]_vars
    /\ [](\A p \in Procs : pc[p] \notin {"L16", "L17", "L22", "L23"} => err[p] = NoStream)

C6_Witness ==
    \E p \in Procs :
        /\ Thrown(p) /\ err[p] = NoStream
        /\ args[p].seeds # <<>> /\ Len(args[p].streams) # args[p].N

\* C7: two completed calls that agree on the seed length, the stream length
\* and N have the same pass/fail outcome and report the same check, whatever
\* their labels; the message is the fixed text around the caller's own label.
C7_LabelOnlyInText ==
    \A p, q \in Procs :
        (/\ Completed(p) /\ Completed(q)
         /\ Len(args[p].seeds) = Len(args[q].seeds)
         /\ Len(args[p].streams) = Len(args[q].streams)
         /\ args[p].N = args[q].N)
            => /\ pc[p] = pc[q]
               /\ FailureKind(p) = FailureKind(q)
               /\ FailureKind(p) # "other"

C7_Witness ==
    \E p, q \in Procs :
        /\ Thrown(p) /\ Thrown(q)
        /\ Len(args[p].seeds) = Len(args[q].seeds)
        /\ Len(args[p].streams) = Len(args[q].streams)
        /\ args[p].N = args[q].N
        /\ args[p].msg # args[q].msg
        /\ exc[p] # exc[q]

\* C8: under every interleaving of the callers' steps, a completed call has
\* the outcome check_pcg_vectors gives for its own arguments.
C8_Reentrant ==
    \A p \in Procs :
        Completed(p)
            => /\ exc[p] = check_pcg_vectors(args[p])
               /\ Returned(p) <=> check_pcg_vectors(args[p]) = NoExc

C8_Witness ==
    \E p, q \in Procs :
        /\ Thrown(p)
        /\ pc[q] \in {"L16", "L17", "L22", "L23"} /\ err[q].live
        /\ args[p] # args[q]

\* C9: a step of create_pcg32 either fails in the seed conversion, and then
\* the converter's error reaches the caller and no generator is added, or it
\* adds exactly one generator built from the converted seed and the stream
\* index it was given.
C9_CreateAllOrNothing ==
    [][\A p \in Procs :
          (/\ pc[p] = "returned" /\ Len(gens[p]) < args[p].N
           /\ <<pc'[p], gens'[p], exc'[p]>> # <<pc[p], gens[p], exc[p]>>)
             => LET i == Len(gens[p]) + 1
                    seed == args[p].seeds[i]
                    stream == args[p].streams[i]
                    c == convert_seed(seed)
                IN  IF c.ok
                    THEN /\ gens'[p] = Append(gens[p], [state |-> seed.val, stream |-> stream % Pow2(WordBits)])
                         /\ exc'[p] = exc[p]
                         /\ pc'[p] = "returned"
                    ELSE /\ gens'[p] = gens[p]
                         /\ exc'[p] = SeedConversionError
                         /\ pc'[p] = "aborted"]_vars

C9_Witness ==
    \E p \in Procs :
        /\ pc[p] = "aborted" /\ exc[p] = SeedConversionError
        /\ Len(gens[p]) = 1 /\ gens[p][1] = [state |-> 5, stream |-> SIZE_MAX]
        /\ args[p].streams[1] = -1

\* C10: for the signed sizes of the two vectors and every N of size_t, the
\* cast size equals N exactly when the size equals N; a call returns exactly
\* when both vectors have N entries.
C10_CastExact ==
    \A p \in Procs :
        /\ pc[p] # "idle"
              => /\ (size_cast(Len(args[p].seeds)) = args[p].N) <=> (Len(args[p].seeds) = args[p].N)
                 /\ (size_cast(Len(args[p].streams)) = args[p].N) <=> (Len(args[p].streams) = args[p].N)
        /\ Completed(p)
              => (Returned(p) <=> (Len(args[p].seeds) = args[p].N /\ Len(args[p].streams) = args[p].N))

C10_Witness ==
    \E p \in Procs :
        /\ Thrown(p)
        /\ args[p].N > XLEN_MAX
        /\ Len(args[p].seeds) = XLEN_MAX
====
